---- MODULE Spec2Model ----
(***************************************************************************)
(* Model of ResideoAPIController (src/resideo_direct_api.py): the OAuth2   *)
(* token record, its refresh-before-expiry check, the authenticated        *)
(* request executor, the persisted token file and the thermostat           *)
(* operations built on the request executor.                               *)
(*                                                                         *)
(* Time is a naive timestamp in seconds.  Every operation is one action;   *)
(* the responses of the token endpoint and of the device/location API are  *)
(* inputs of the action.  lastOp, lastArgs, lastResult, lastEnsure,        *)
(* lastCalls and lastReqs record what the last operation was, what it      *)
(* returned and which HTTP requests it issued, in order.                   *)
(***************************************************************************)
EXTENDS Integers, Sequences, FiniteSets

VARIABLES
    access_token,    \* self.access_token  (None or a token string)
    refresh_token,   \* self.refresh_token (None or a token string)
    token_expires,   \* self.token_expires (<<>> for None, <<t>> for datetime t)
    now,             \* datetime.now(), seconds
    file,            \* content of resideo_tokens.json
    lastOp,          \* name of the last operation run
    lastArgs,        \* its arguments
    lastResult,      \* what it returned (or that it raised)
    lastEnsure,      \* what _ensure_valid_token returned in it ("-" when not run)
    lastCalls,       \* the results of its _make_api_request calls, in order
    lastReqs,        \* the HTTP requests it issued, in order
    lastDevice,      \* target_thermostat as it is when set_temperature ends
    pc,              \* where each concurrent caller of _make_api_request stands
    refresh_data,    \* each caller's refresh request body, data (lines 114-117)
    token_data,      \* each caller's token response (line 123)
    granted          \* the callers whose refresh the server granted, in order

vars == <<access_token, refresh_token, token_expires, now, file,
          lastOp, lastArgs, lastResult, lastEnsure, lastCalls, lastReqs,
          lastDevice, pc, refresh_data, token_data, granted>>

session_vars == <<access_token, refresh_token, token_expires>>

caller_vars == <<pc, refresh_data, token_data, granted>>

-----------------------------------------------------------------------------
(* Bounds and program constants *)

MaxTicks == 2                 \* the clock runs from 0 to MaxTicks * TickSeconds
MarginSeconds == 300          \* timedelta(minutes=5)
DefaultExpiresIn == 3600      \* token_data.get('expires_in', 3600)
TickSeconds == MarginSeconds  \* the clock advances in steps of the margin

None == "None"                \* Python None, for tokens and ids
Absent == "<absent>"          \* a key that a JSON object does not have
NoTime == <<>>                \* token_expires = None

AccessTokens == {"a1", "a2"}
RefreshTokens == {"r1", "r2"}
Codes == {"c1"}

IsSet(x) == x # NoTime
At(x) == x[1]

Session == [access_token |-> access_token, refresh_token |-> refresh_token,
            token_expires |-> token_expires]

EmptySession == [access_token |-> None, refresh_token |-> None,
                 token_expires |-> NoTime]

-----------------------------------------------------------------------------
(* Token endpoint responses *)

\* expires_in of a token response: missing, or a number of seconds (the
\* lifetimes issued here are the margin, twice the margin and the default)
NoExpiresIn == [kind |-> "absent", n |-> 0]
IntExpiresIn(n) == [kind |-> "int", n |-> n]
ExpiresInValues == {NoExpiresIn, IntExpiresIn(MarginSeconds),
                    IntExpiresIn(2 * MarginSeconds)}

\* raise_for_status() raised or the transport failed: a RequestException
TokenFailure == [ok |-> FALSE, access_token |-> Absent, refresh_token |-> Absent,
                 expires_in |-> NoExpiresIn]

\* the token pairs the server issues: an access token with its refresh token,
\* an access token alone, or a body without tokens
IssuedPairs == {<<"a1", "r1">>, <<"a2", "r2">>, <<"a2", Absent>>, <<Absent, Absent>>}

TokenResponses ==
    {TokenFailure} \cup
    {[ok |-> TRUE, access_token |-> p[1], refresh_token |-> p[2], expires_in |-> e] :
        p \in IssuedPairs, e \in ExpiresInValues}

\* dict.get(key): None when the key is absent
Get(v) == IF v = Absent THEN None ELSE v

\* F applied to the value of v, with v evaluated once (a local variable
\* holding the value a call returned)
Bind(v, F(_)) == CHOOSE y \in {F(x) : x \in {v}} : TRUE

-----------------------------------------------------------------------------
(* Results and the request log *)

NoData == [kind |-> "none", items |-> <<>>]
Result(kind, msg, data) == [kind |-> kind, msg |-> msg, data |-> data]
Success(data) == Result("success", "", data)
SuccessMsg(msg) == Result("success", msg, NoData)
Error(msg) == Result("error", msg, NoData)
Raised(exc) == Result("raised", exc, NoData)
Bool(b) == Result(IF b THEN "True" ELSE "False", "", NoData)
NoResult == Result("none", "", NoData)

NoBody == <<>>
NoValue == <<>>    \* an optional argument left at None

Endpoint(path, query) == [path |-> path, query |-> query]
NoEndpoint == Endpoint("", "")

\* the arguments of an operation; "-" where it has no such argument
Args(method, endpoint, device_id, mode, heat_setpoint, cool_setpoint, location_id, fan_mode) ==
    [method |-> method, endpoint |-> endpoint, device_id |-> device_id, mode |-> mode,
     heat_setpoint |-> heat_setpoint, cool_setpoint |-> cool_setpoint,
     location_id |-> location_id, fan_mode |-> fan_mode]
NoArgs == Args("-", NoEndpoint, "-", "-", NoValue, NoValue, "-", "-")

\* a POST to {auth_base_url}/token
TokenReq(k, grant, sent, resp) ==
    [call |-> k, kind |-> "token", grant |-> grant, sent |-> sent,
     ok |-> resp.ok, issued |-> resp.access_token, supplied |-> resp.refresh_token,
     expires_in |-> resp.expires_in,
     method |-> "POST", endpoint |-> NoEndpoint, sep |-> "", body |-> NoBody,
     bearer |-> None, expires |-> NoTime, at |-> 0, status |-> "-"]

\* an authenticated request to {api_base_url}{endpoint}, as dispatched:
\* bearer and expires are the session's token and expiry at that moment
ApiReq(k, method, endpoint, sep, body, s, t, resp) ==
    [call |-> k, kind |-> "api", grant |-> "-", sent |-> "-",
     ok |-> resp.status \in {"ok_empty", "ok_json", "ok_text"},
     issued |-> Absent, supplied |-> Absent, expires_in |-> NoExpiresIn,
     method |-> method, endpoint |-> endpoint, sep |-> sep, body |-> body,
     bearer |-> s.access_token, expires |-> s.token_expires, at |-> t,
     status |-> resp.status]

TokenReqs(reqs) == SelectSeq(reqs, LAMBDA e : e.kind = "token")
ApiReqs(reqs) == SelectSeq(reqs, LAMBDA e : e.kind = "api")

-----------------------------------------------------------------------------
(* AuthorizationFlow and TokenLifecycle *)

\* int(token_data.get('expires_in', 3600))
ExpiresIn(resp) ==
    IF resp.expires_in.kind = "absent" THEN DefaultExpiresIn ELSE resp.expires_in.n

\* exchange_code_for_token: [s: the session after, res: the return value,
\* reqs: the requests issued]
exchange_code_for_token(s, t, code, resp) ==
    LET reqs == <<TokenReq(1, "authorization_code", code, resp)>> IN
    IF ~resp.ok
    THEN [s |-> s, res |-> Error("Failed to exchange code for token"), reqs |-> reqs]
    ELSE LET s1 == [s EXCEPT !.access_token = Get(resp.access_token),
                             !.refresh_token = Get(resp.refresh_token)] IN
         [s |-> [s1 EXCEPT !.token_expires = <<t + ExpiresIn(resp)>>],
          res |-> Success([kind |-> "token", items |-> <<>>]), reqs |-> reqs]

\* refresh_access_token taking the refresh token from the response as
\* exchange_code_for_token does, with token_data.get('refresh_token')
refresh_access_token_Overwrites(s, t, resp, k) ==
    IF s.refresh_token = None
    THEN [s |-> s, res |-> Error("No refresh token available"), reqs |-> <<>>]
    ELSE
    LET reqs == <<TokenReq(k, "refresh_token", s.refresh_token, resp)>> IN
    IF ~resp.ok
    THEN [s |-> s, res |-> Error("Failed to refresh token"), reqs |-> reqs]
    ELSE [s |-> [access_token |-> Get(resp.access_token),
                 refresh_token |-> Get(resp.refresh_token),
                 token_expires |-> <<t + ExpiresIn(resp)>>],
          res |-> SuccessMsg("Token refreshed successfully"), reqs |-> reqs]

\* refresh_access_token posting to the token endpoint without a refresh
\* token to send
refresh_access_token_PostsAnyway(s, t, resp, k) ==
    LET reqs == <<TokenReq(k, "refresh_token", s.refresh_token, resp)>> IN
    IF ~resp.ok
    THEN [s |-> s, res |-> Error("Failed to refresh token"), reqs |-> reqs]
    ELSE [s |-> [access_token |-> Get(resp.access_token),
                 refresh_token |-> IF resp.refresh_token # Absent
                                   THEN resp.refresh_token ELSE s.refresh_token,
                 token_expires |-> <<t + ExpiresIn(resp)>>],
          res |-> SuccessMsg("Token refreshed successfully"), reqs |-> reqs]

\* refresh_access_token dropping the held tokens when the token endpoint
\* refuses the refresh
refresh_access_token_ClearsOnFailure(s, t, resp, k) ==
    IF s.refresh_token = None
    THEN [s |-> s, res |-> Error("No refresh token available"), reqs |-> <<>>]
    ELSE
    LET reqs == <<TokenReq(k, "refresh_token", s.refresh_token, resp)>> IN
    IF ~resp.ok
    THEN [s |-> EmptySession, res |-> Error("Failed to refresh token"), reqs |-> reqs]
    ELSE [s |-> [access_token |-> Get(resp.access_token),
                 refresh_token |-> IF resp.refresh_token # Absent
                                   THEN resp.refresh_token ELSE s.refresh_token,
                 token_expires |-> <<t + ExpiresIn(resp)>>],
          res |-> SuccessMsg("Token refreshed successfully"), reqs |-> reqs]

\* refresh_access_token, as call number k of the running operation
refresh_access_token(s, t, resp, k) ==
    IF s.refresh_token = None
    THEN [s |-> s, res |-> Error("No refresh token available"), reqs |-> <<>>]
    ELSE
    LET reqs == <<TokenReq(k, "refresh_token", s.refresh_token, resp)>> IN
    IF ~resp.ok
    THEN [s |-> s, res |-> Error("Failed to refresh token"), reqs |-> reqs]
    ELSE LET s1 == [s EXCEPT !.access_token = Get(resp.access_token),
                             !.refresh_token =
                                 IF resp.refresh_token # Absent
                                 THEN resp.refresh_token ELSE s.refresh_token] IN
         [s |-> [s1 EXCEPT !.token_expires = <<t + ExpiresIn(resp)>>],
          res |-> SuccessMsg("Token refreshed successfully"), reqs |-> reqs]

\* the condition of line 150 without the early-refresh margin
AboutToExpire_NoMargin(s, t) ==
    IsSet(s.token_expires) /\ t >= At(s.token_expires)

\* the condition of line 150 with > in place of >=
AboutToExpire_Strict(s, t) ==
    IsSet(s.token_expires) /\ t > At(s.token_expires) - MarginSeconds

\* the condition of line 150: the token is about to expire
AboutToExpire(s, t) ==
    IsSet(s.token_expires) /\ t >= At(s.token_expires) - MarginSeconds

\* _ensure_valid_token trying a refresh when no access token is held but a
\* refresh token is
_ensure_valid_token_RefreshesUnset(s, t, resp, k) ==
    IF s.access_token = None /\ s.refresh_token = None
    THEN [s |-> s, ret |-> "False", reqs |-> <<>>]
    ELSE IF s.access_token = None \/ AboutToExpire(s, t)
    THEN Bind(refresh_access_token(s, t, resp, k), LAMBDA r :
         [s |-> r.s,
          ret |-> IF r.res.kind = "success" THEN "True" ELSE "False",
          reqs |-> r.reqs])
    ELSE [s |-> s, ret |-> "True", reqs |-> <<>>]

\* _ensure_valid_token: ret is "True" or "False"
_ensure_valid_token(s, t, resp, k) ==
    IF s.access_token = None
    THEN [s |-> s, ret |-> "False", reqs |-> <<>>]
    ELSE IF AboutToExpire(s, t)
    THEN Bind(refresh_access_token(s, t, resp, k), LAMBDA r :
         [s |-> r.s,
          ret |-> IF r.res.kind = "success" THEN "True" ELSE "False",
          reqs |-> r.reqs])
    ELSE [s |-> s, ret |-> "True", reqs |-> <<>>]

-----------------------------------------------------------------------------
(* RequestExecutor *)

ClientId == "client"

\* API responses.  status: "transport" (no response at all), "http_json"
\* (non-2xx, JSON error body), "http_text" (non-2xx, other body), "ok_empty"
\* (2xx, no content), "ok_json" (2xx, JSON body), "ok_text" (2xx, other body).
\* items is the parsed JSON body of an "ok_json" response.
ApiResponse(status, code, items) == [status |-> status, code |-> code, items |-> items]
NoApiResponse == ApiResponse("none", "0", <<>>)
NoTokenResponse == TokenFailure

ApiFailures == {ApiResponse("transport", "0", <<>>),
                ApiResponse("http_json", "401", <<>>),
                ApiResponse("http_text", "500", <<>>)}

\* a 2xx status outside [200, 201, 202, 204] with no content falls through
\* to response.json(), which fails, and the text fallback answers
ApiEmpties == {ApiResponse("ok_empty", "204", <<>>), ApiResponse("ok_empty", "205", <<>>)}

ApiOk(items) == ApiResponse("ok_json", "200", items)
ApiText == ApiResponse("ok_text", "200", <<>>)

\* method.upper()
Upper(m) == CASE m = "get" -> "GET"
              [] m = "post" -> "POST"
              [] m = "put" -> "PUT"
              [] m = "delete" -> "DELETE"
              [] m = "patch" -> "PATCH"
              [] OTHER -> m

\* separator = '&' if '?' in url else '?'
Separator(endpoint) == IF endpoint.query # "" THEN "&" ELSE "?"

\* what lines 193-213 make of the response
Normalize(resp) ==
    CASE resp.status = "ok_empty" ->
             IF resp.code \in {"200", "201", "202", "204"}
             THEN Success([kind |-> "empty", items |-> <<>>])
             ELSE Success([kind |-> "text", items |-> <<>>])
      [] resp.status = "ok_json" -> Success([kind |-> "json", items |-> resp.items])
      [] resp.status = "ok_text" -> Success([kind |-> "text", items |-> <<>>])
      [] resp.status = "http_json" -> Error("API Error: {code: " \o resp.code \o "}")
      [] resp.status = "http_text" -> Error("HTTP " \o resp.code \o ": body")
      [] OTHER -> Error("Request failed: connection error")

\* _make_api_request going on to the request when _ensure_valid_token
\* returned False
_make_api_request_IgnoresEnsure(s, t, method, endpoint, data, tresp, aresp, k) ==
    Bind(_ensure_valid_token(s, t, tresp, k), LAMBDA e :
    IF Upper(method) \notin {"GET", "POST", "PUT", "DELETE"}
    THEN [s |-> e.s, res |-> Error("Unsupported HTTP method: " \o method),
          ensure |-> e.ret, reqs |-> e.reqs]
    ELSE LET body == IF Upper(method) \in {"POST", "PUT"} THEN data ELSE NoBody
             req == ApiReq(k, Upper(method), endpoint, Separator(endpoint), body,
                           e.s, t, aresp) IN
         [s |-> e.s, res |-> Normalize(aresp), ensure |-> e.ret,
          reqs |-> Append(e.reqs, req)])

\* _make_api_request sending the request a second time when the first
\* answer is an HTTP error
_make_api_request_Retries(s, t, method, endpoint, data, tresp, aresp, k) ==
    Bind(_ensure_valid_token(s, t, tresp, k), LAMBDA e :
    IF e.ret = "False"
    THEN [s |-> e.s, res |-> Error("No valid access token available"),
          ensure |-> e.ret, reqs |-> e.reqs]
    ELSE IF Upper(method) \notin {"GET", "POST", "PUT", "DELETE"}
    THEN [s |-> e.s, res |-> Error("Unsupported HTTP method: " \o method),
          ensure |-> e.ret, reqs |-> e.reqs]
    ELSE LET body == IF Upper(method) \in {"POST", "PUT"} THEN data ELSE NoBody
             req == ApiReq(k, Upper(method), endpoint, Separator(endpoint), body,
                           e.s, t, aresp) IN
         [s |-> e.s, res |-> Normalize(aresp), ensure |-> e.ret,
          reqs |-> IF aresp.status \in {"http_json", "http_text"}
                   THEN Append(Append(e.reqs, req), req)
                   ELSE Append(e.reqs, req)])

\* _make_api_request, as call number k of the running operation:
\* [s, res, ensure: what _ensure_valid_token returned, reqs]
_make_api_request(s, t, method, endpoint, data, tresp, aresp, k) ==
    Bind(_ensure_valid_token(s, t, tresp, k), LAMBDA e :
    IF e.ret = "False"
    THEN [s |-> e.s, res |-> Error("No valid access token available"),
          ensure |-> e.ret, reqs |-> e.reqs]
    ELSE IF Upper(method) \notin {"GET", "POST", "PUT", "DELETE"}
    THEN [s |-> e.s, res |-> Error("Unsupported HTTP method: " \o method),
          ensure |-> e.ret, reqs |-> e.reqs]
    ELSE LET body == IF Upper(method) \in {"POST", "PUT"} THEN data ELSE NoBody
             req == ApiReq(k, Upper(method), endpoint, Separator(endpoint), body,
                           e.s, t, aresp) IN
         [s |-> e.s, res |-> Normalize(aresp), ensure |-> e.ret,
          reqs |-> Append(e.reqs, req)])

\* the endpoints of lines 222 and 277/293
LocationsEndpoint == Endpoint("/locations", "")
StatusEndpoint(device_id, location_id) ==
    Endpoint("/devices/thermostats/" \o device_id, "locationId=" \o location_id)

-----------------------------------------------------------------------------
(* Domain operations.  Each returns [s, res, calls, reqs]: calls are the   *)
(* results of its _make_api_request calls, in order.  trs[k] and ars[k]    *)
(* are the responses to the token and API request of its k-th call.        *)

\* dict.get(key, default)
GetKey(d, key, default) == IF key \in DOMAIN d THEN d[key] ELSE default

\* d[key] = v on a copy of d
Put(d, key, v) == [x \in (DOMAIN d) \cup {key} |-> IF x = key THEN v ELSE d[x]]

\* all_devices.extend(location.get('devices', [])) over the locations
RECURSIVE Flatten(_)
Flatten(locations) ==
    IF locations = <<>> THEN <<>>
    ELSE GetKey(Head(locations), "devices", <<>>) \o Flatten(Tail(locations))

\* device: target_thermostat as the operation leaves it (set_temperature)
Op(s, res, calls, reqs) ==
    [s |-> s, res |-> res, calls |-> calls, reqs |-> reqs, device |-> NoValue]

get_locations(s, t, tr, ar, k) ==
    _make_api_request(s, t, "GET", LocationsEndpoint, NoBody, tr, ar, k)

get_all_devices(s, t, trs, ars) ==
    Bind(get_locations(s, t, trs[1], ars[1], 1), LAMBDA r :
    IF r.res.kind # "success"
    THEN Op(r.s, r.res, <<r.res>>, r.reqs)
    ELSE IF r.res.data.kind = "text"
    THEN \* iterating {"response_text": ...} yields a str, which has no .get
         Op(r.s, Raised("AttributeError"), <<r.res>>, r.reqs)
    ELSE Op(r.s, Success([kind |-> "json", items |-> Flatten(r.res.data.items)]),
            <<r.res>>, r.reqs))

IsThermostat(device) ==
    \/ GetKey(device, "deviceType", None) = "Thermostat"
    \/ GetKey(device, "deviceClass", None) = "Thermostat"

List(items) == Result("list", "", [kind |-> "json", items |-> items])

get_thermostats(s, t, trs, ars) ==
    Bind(get_all_devices(s, t, trs, ars), LAMBDA r :
    IF r.res.kind = "raised" THEN r
    ELSE IF r.res.kind # "success" THEN [r EXCEPT !.res = List(<<>>)]
    ELSE [r EXCEPT !.res = List(SelectSeq(r.res.data.items, IsThermostat))])

get_thermostat_status(s, t, device_id, location_id, trs, ars) ==
    Bind(_make_api_request(s, t, "GET", StatusEndpoint(device_id, location_id),
                           NoBody, trs[1], ars[1], 1), LAMBDA r :
    Op(r.s, r.res, <<r.res>>, r.reqs))

\* as call number k of the running operation
set_thermostat_settings(s, t, device_id, location_id, settings, tr, ar, k) ==
    _make_api_request(s, t, "POST", StatusEndpoint(device_id, location_id),
                      settings, tr, ar, k)

\* lines 316-320 and 378-382: [done, r: the operation's outcome when done,
\* location_id, s, calls, reqs]
ResolveLocation(s, t, location_id, tr, ar) ==
    IF location_id # None
    THEN [done |-> FALSE, r |-> Op(s, NoResult, <<>>, <<>>), location_id |-> location_id]
    ELSE
    Bind(get_locations(s, t, tr, ar, 1), LAMBDA r :
    LET out(res) == [done |-> TRUE, r |-> Op(r.s, res, <<r.res>>, r.reqs),
                     location_id |-> None] IN
    IF r.res.kind # "success" \/ r.res.data.kind = "empty"
            \/ (r.res.data.kind = "json" /\ r.res.data.items = <<>>)
    THEN out(Error("Could not get location information"))
    ELSE IF r.res.data.kind = "text"
    THEN \* {"response_text": ...}[0]
         out(Raised("KeyError"))
    ELSE [done |-> FALSE, r |-> Op(r.s, NoResult, <<r.res>>, r.reqs),
          location_id |-> GetKey(r.res.data.items[1], "locationID", None)])

\* lines 341-353 starting from an empty bag instead of a copy of the
\* device's changeableValues
ChangeableValues_FromScratch(device, mode, heat_setpoint, cool_setpoint) ==
    LET v1 == Put(<<>>, "mode", mode)
        v2 == IF heat_setpoint # NoValue THEN Put(v1, "heatSetpoint", heat_setpoint[1])
              ELSE v1
        v3 == IF cool_setpoint # NoValue THEN Put(v2, "coolSetpoint", cool_setpoint[1])
              ELSE v2 IN
    Put(v3, "thermostatSetpointStatus", "PermanentHold")

\* lines 341-353
ChangeableValues(device, mode, heat_setpoint, cool_setpoint) ==
    LET v0 == GetKey(device, "changeableValues", <<>>)
        v1 == Put(v0, "mode", mode)
        v2 == IF heat_setpoint # NoValue THEN Put(v1, "heatSetpoint", heat_setpoint[1])
              ELSE v1
        v3 == IF cool_setpoint # NoValue THEN Put(v2, "coolSetpoint", cool_setpoint[1])
              ELSE v2 IN
    Put(v3, "thermostatSetpointStatus", "PermanentHold")

\* target_thermostat after lines 341-353: the writes go to a copy of its
\* changeableValues, so the device is as it was fetched
TargetAfter(device, values) == device

set_temperature(s, t, device_id, mode, heat_setpoint, cool_setpoint, location_id, trs, ars) ==
    Bind(ResolveLocation(s, t, location_id, trs[1], ars[1]), LAMBDA loc :
    IF loc.done THEN loc.r
    ELSE
    Bind(Len(loc.r.calls) + 1, LAMBDA k :
    Bind(get_locations(loc.r.s, t, trs[k], ars[k], k), LAMBDA r :
    LET calls == Append(loc.r.calls, r.res)
        reqs == loc.r.reqs \o r.reqs IN
    IF r.res.kind # "success"
    THEN Op(r.s, Error("Could not get current thermostat status"), calls, reqs)
    ELSE IF r.res.data.kind = "text"
    THEN Op(r.s, Raised("AttributeError"), calls, reqs)
    ELSE
    Bind(SelectSeq(Flatten(r.res.data.items),
                   LAMBDA d : GetKey(d, "deviceID", None) = device_id), LAMBDA found :
    IF found = <<>>
    THEN Op(r.s, Error("Thermostat " \o device_id \o " not found"), calls, reqs)
    ELSE
    Bind(ChangeableValues(Head(found), mode, heat_setpoint, cool_setpoint), LAMBDA values :
    Bind(set_thermostat_settings(r.s, t, device_id, loc.location_id, values,
                                 trs[k + 1], ars[k + 1], k + 1), LAMBDA w :
    [Op(w.s, w.res, Append(calls, w.res), reqs \o w.reqs)
        EXCEPT !.device = <<TargetAfter(Head(found), values)>>]))))))

\* fan_mode.lower() and fan_mode.title()
Lower(m) == CASE m \in {"auto", "AUTO", "Auto"} -> "auto"
              [] m \in {"on", "On", "ON"} -> "on"
              [] m \in {"circulate", "Circulate", "CIRCULATE"} -> "circulate"
              [] m = "SPIN" -> "spin"
              [] OTHER -> m

\* the fan mode sent as it was given
Title_AsGiven(m) == m

Title(m) == CASE m \in {"auto", "AUTO", "Auto"} -> "Auto"
              [] m \in {"on", "On", "ON"} -> "On"
              [] m \in {"circulate", "Circulate", "CIRCULATE"} -> "Circulate"
              [] m = "SPIN" -> "Spin"
              [] OTHER -> m

set_fan_mode(s, t, device_id, fan_mode, location_id, trs, ars) ==
    IF Lower(fan_mode) \notin {"auto", "on", "circulate"}
    THEN Op(s, Error("Invalid fan mode '" \o fan_mode \o "'"), <<>>, <<>>)
    ELSE
    Bind(ResolveLocation(s, t, location_id, trs[1], ars[1]), LAMBDA loc :
    IF loc.done THEN loc.r
    ELSE
    Bind(Len(loc.r.calls) + 1, LAMBDA k :
    Bind(_make_api_request(
             loc.r.s, t, "POST",
             Endpoint("/devices/thermostats/" \o device_id \o "/fan",
                      "locationId=" \o loc.location_id),
             [mode |-> Title(fan_mode)], trs[k], ars[k], k), LAMBDA w :
    Op(w.s, w.res, Append(loc.r.calls, w.res), loc.r.reqs \o w.reqs))))

-----------------------------------------------------------------------------
(* Persistence *)

\* datetime.isoformat() and datetime.fromisoformat(): the text of a
\* timestamp, and the timestamp of a text; text that is no ISO timestamp
\* makes fromisoformat raise ValueError
NullExpires == [kind |-> "null", t |-> 0]
BadExpires == [kind |-> "bad", t |-> 0]
isoformat(t) == [kind |-> "iso", t |-> t]
IsIso(x) == x.kind = "iso"
fromisoformat(x) == x.t

MissingFile == [kind |-> "missing", access_token |-> Absent, refresh_token |-> Absent,
                expires |-> NullExpires, client_id |-> Absent]
GarbageFile == [kind |-> "garbage", access_token |-> Absent, refresh_token |-> Absent,
                expires |-> NullExpires, client_id |-> Absent]
RecordFile(a, r, e) == [kind |-> "record", access_token |-> a, refresh_token |-> r,
                        expires |-> e, client_id |-> ClientId]

\* the token_data that save_tokens dumps
TokenData(s) ==
    RecordFile(s.access_token, s.refresh_token,
               IF IsSet(s.token_expires) THEN isoformat(At(s.token_expires))
               ELSE NullExpires)

\* save_tokens: [file: the file after, ret]
save_tokens(s, f, writable) ==
    IF writable THEN [file |-> TokenData(s), ret |-> TRUE]
    ELSE [file |-> f, ret |-> FALSE]

\* load_tokens: [s: the session after, ret]
load_tokens(s, f) ==
    IF f.kind # "record"
    THEN [s |-> s, ret |-> FALSE]
    ELSE LET s1 == [s EXCEPT !.access_token = Get(f.access_token),
                             !.refresh_token = Get(f.refresh_token)] IN
         IF f.expires.kind = "null"
         THEN [s |-> s1, ret |-> TRUE]
         ELSE IF IsIso(f.expires)
         THEN [s |-> [s1 EXCEPT !.token_expires = <<fromisoformat(f.expires)>>],
               ret |-> TRUE]
         ELSE [s |-> s1, ret |-> FALSE]

-----------------------------------------------------------------------------
(* Inputs *)

CallArgs ==
    {[method |-> "GET", endpoint |-> LocationsEndpoint, data |-> NoBody],
     [method |-> "post", endpoint |-> StatusEndpoint("D1", "L1"),
      data |-> [mode |-> "Heat"]],
     [method |-> "PATCH", endpoint |-> LocationsEndpoint, data |-> NoBody]}

\* the responses the API gives to such a request
CallResponses == ApiFailures \cup ApiEmpties \cup {ApiOk(<<>>), ApiText}

\* files that something other than save_tokens left behind
ForeignFiles ==
    {MissingFile, GarbageFile,
     RecordFile("a2", "r2", NullExpires),
     RecordFile("a2", "r2", BadExpires),
     RecordFile("a2", Absent, isoformat(2 * MarginSeconds))}

\* the accounts the API serves
D1 == [deviceID |-> "D1", deviceClass |-> "Thermostat",
       changeableValues |-> [mode |-> "Off"]]
D2 == [deviceID |-> "D2", deviceType |-> "Thermostat",
       changeableValues |-> [mode |-> "Cool", heatSetpoint |-> 62, coolSetpoint |-> 78,
                             thermostatSetpointStatus |-> "NoHold",
                             autoChangeoverActive |-> FALSE]]
D3 == [deviceID |-> "D3", deviceType |-> "LeakDetector"]
LocA == [locationID |-> "LA", devices |-> <<D1>>]
LocB == [locationID |-> "LB", devices |-> <<D3, D2>>]
LocC == [locationID |-> "LC"]

LocationPayloads == {<<>>, <<LocA, LocB>>, <<LocB, LocA>>, <<LocC, LocA>>}

\* the responses to GET /locations, and to the other requests
LocationResponses ==
    ApiFailures \cup {ApiResponse("ok_empty", "204", <<>>), ApiText}
        \cup {ApiOk(p) : p \in LocationPayloads}
WriteResponses == ApiFailures \cup {ApiResponse("ok_empty", "204", <<>>), ApiOk(<<>>)}

\* the token responses a domain operation sees
OpsTokenResponses ==
    {TokenFailure,
     [ok |-> TRUE, access_token |-> "a2", refresh_token |-> "r2",
      expires_in |-> NoExpiresIn],
     [ok |-> TRUE, access_token |-> "a2", refresh_token |-> Absent,
      expires_in |-> IntExpiresIn(MarginSeconds)]}

\* the sessions a domain operation starts from: none, a fresh one, one
\* within the margin with and without a refresh token, and a restored one
\* without an expiry
OpsSessions ==
    {EmptySession,
     [access_token |-> "a1", refresh_token |-> "r1", token_expires |-> <<DefaultExpiresIn>>],
     [access_token |-> "a1", refresh_token |-> "r1", token_expires |-> <<MarginSeconds>>],
     [access_token |-> "a2", refresh_token |-> None, token_expires |-> <<MarginSeconds>>],
     [access_token |-> "a2", refresh_token |-> "r2", token_expires |-> NoTime]}

DeviceIds == {"D1", "D2", "D9"}
Modes == {"Heat"}
HeatSetpoints == {NoValue, <<68>>}
CoolSetpoints == {NoValue, <<72>>}
LocationIds == {None, "LB"}
FanModes == {"auto", "On", "CIRCULATE", "SPIN"}

\* the response sets an action draws from: a response is drawn only for a
\* request that is made
TokenDomain(reqs, k) ==
    IF \E i \in 1..Len(reqs) : reqs[i].call = k /\ reqs[i].kind = "token"
    THEN TokenResponses ELSE {NoTokenResponse}

\* the same for the calls of a domain operation
OpsTokenDomain(reqs, k) ==
    IF \E i \in 1..Len(reqs) : reqs[i].call = k /\ reqs[i].kind = "token"
    THEN OpsTokenResponses ELSE {NoTokenResponse}

OpsApiDomain(reqs, k) ==
    LET sent == SelectSeq(reqs, LAMBDA e : e.call = k /\ e.kind = "api") IN
    IF sent = <<>> THEN {NoApiResponse}
    ELSE IF sent[1].endpoint = LocationsEndpoint THEN LocationResponses
    ELSE WriteResponses

ApiDomain(reqs, k, responses) ==
    IF \E i \in 1..Len(reqs) : reqs[i].call = k /\ reqs[i].kind = "api"
    THEN responses ELSE {NoApiResponse}

-----------------------------------------------------------------------------
(* Actions *)

\* the callers of the concurrent runs; none is running
Callers == {1, 2}
NoCallers ==
    /\ pc = [c \in Callers |-> "idle"]
    /\ refresh_data = [c \in Callers |-> None]
    /\ token_data = [c \in Callers |-> NoTokenResponse]
    /\ granted = <<>>

SetSession(s) ==
    /\ access_token' = s.access_token
    /\ refresh_token' = s.refresh_token
    /\ token_expires' = s.token_expires

Record(op, res, ensure, reqs) ==
    /\ lastOp' = op
    /\ lastArgs' = NoArgs
    /\ lastResult' = res
    /\ lastEnsure' = ensure
    /\ lastCalls' = <<>>
    /\ lastReqs' = reqs
    /\ lastDevice' = NoValue
    /\ UNCHANGED caller_vars

RecordOp(op, args, r) ==
    /\ SetSession(r.s)
    /\ lastOp' = op
    /\ lastArgs' = args
    /\ lastResult' = r.res
    /\ lastEnsure' = "-"
    /\ lastCalls' = r.calls
    /\ lastReqs' = r.reqs
    /\ lastDevice' = r.device
    /\ UNCHANGED caller_vars

Init ==
    /\ access_token = None
    /\ refresh_token = None
    /\ token_expires = NoTime
    /\ now = 0
    /\ file = MissingFile
    /\ lastOp = "__init__"
    /\ lastArgs = NoArgs
    /\ lastResult = NoResult
    /\ lastEnsure = "-"
    /\ lastCalls = <<>>
    /\ lastReqs = <<>>
    /\ lastDevice = NoValue
    /\ NoCallers

\* time passes between operations
Tick ==
    /\ now + TickSeconds <= MaxTicks * TickSeconds
    /\ now' = now + TickSeconds
    /\ Record("tick", NoResult, "-", <<>>)
    /\ UNCHANGED <<session_vars, file>>

ExchangeCode ==
    \E code \in Codes, resp \in TokenResponses :
        LET r == exchange_code_for_token(Session, now, code, resp) IN
        /\ SetSession(r.s)
        /\ Record("exchange_code_for_token", r.res, "-", r.reqs)
        /\ UNCHANGED <<now, file>>

Refresh ==
    \E resp \in TokenDomain(refresh_access_token(Session, now, NoTokenResponse, 1).reqs, 1) :
        LET r == refresh_access_token(Session, now, resp, 1) IN
        /\ SetSession(r.s)
        /\ Record("refresh_access_token", r.res, "-", r.reqs)
        /\ UNCHANGED <<now, file>>

EnsureValid ==
    \E resp \in TokenDomain(_ensure_valid_token(Session, now, NoTokenResponse, 1).reqs, 1) :
        LET r == _ensure_valid_token(Session, now, resp, 1) IN
        /\ SetSession(r.s)
        /\ Record("_ensure_valid_token", Bool(r.ret = "True"), r.ret, r.reqs)
        /\ UNCHANGED <<now, file>>

Call ==
    \E a \in CallArgs :
    \E tresp \in TokenDomain(_make_api_request(Session, now, a.method, a.endpoint, a.data,
                                               NoTokenResponse, NoApiResponse, 1).reqs, 1) :
    \E aresp \in ApiDomain(_make_api_request(Session, now, a.method, a.endpoint, a.data,
                                             tresp, NoApiResponse, 1).reqs, 1, CallResponses) :
        LET r == _make_api_request(Session, now, a.method, a.endpoint, a.data,
                                   tresp, aresp, 1) IN
        /\ SetSession(r.s)
        /\ lastOp' = "_make_api_request"
        /\ lastArgs' = Args(a.method, a.endpoint, "-", "-", NoValue, NoValue, "-", "-")
        /\ lastResult' = r.res
        /\ lastEnsure' = r.ensure
        /\ lastCalls' = <<r.res>>
        /\ lastReqs' = r.reqs
        /\ lastDevice' = NoValue
        /\ UNCHANGED <<now, file, caller_vars>>

SaveTokens ==
    \E writable \in BOOLEAN :
        LET r == save_tokens(Session, file, writable) IN
        /\ file' = r.file
        /\ Record("save_tokens", Bool(r.ret), "-", <<>>)
        /\ UNCHANGED <<session_vars, now>>

LoadTokens ==
    LET r == load_tokens(Session, file) IN
    /\ SetSession(r.s)
    /\ Record("load_tokens", Bool(r.ret), "-", <<>>)
    /\ UNCHANGED <<now, file>>

\* the environment replaces the token file
ExternalWrite ==
    \E f \in ForeignFiles :
        /\ file' = f
        /\ Record("external_write", NoResult, "-", <<>>)
        /\ UNCHANGED <<session_vars, now>>

Next ==
    \/ Tick
    \/ ExchangeCode
    \/ Refresh
    \/ EnsureValid
    \/ Call
    \/ LoadTokens
    \/ ExternalWrite

Spec == Init /\ [][Next]_vars

-----------------------------------------------------------------------------
(* One domain operation on a session the token lifecycle leaves behind *)

NoT == <<NoTokenResponse, NoTokenResponse, NoTokenResponse>>
NoA == <<NoApiResponse, NoApiResponse, NoApiResponse>>

InitOps ==
    /\ \E s \in OpsSessions :
           /\ access_token = s.access_token
           /\ refresh_token = s.refresh_token
           /\ token_expires = s.token_expires
    /\ now = 0
    /\ file = MissingFile
    /\ lastOp = "__init__"
    /\ lastArgs = NoArgs
    /\ lastResult = NoResult
    /\ lastEnsure = "-"
    /\ lastCalls = <<>>
    /\ lastReqs = <<>>
    /\ lastDevice = NoValue
    /\ NoCallers

GetLocations ==
    /\ lastOp = "__init__"
    /\ \E tr \in OpsTokenDomain(get_locations(Session, now, NoT[1], NoA[1], 1).reqs, 1) :
       \E ar \in OpsApiDomain(get_locations(Session, now, tr, NoA[1], 1).reqs, 1) :
           LET r == get_locations(Session, now, tr, ar, 1) IN
           /\ RecordOp("get_locations", NoArgs, Op(r.s, r.res, <<r.res>>, r.reqs))
           /\ UNCHANGED <<now, file>>

GetAllDevices ==
    /\ lastOp = "__init__"
    /\ \E tr \in OpsTokenDomain(get_all_devices(Session, now, NoT, NoA).reqs, 1) :
       \E ar \in OpsApiDomain(get_all_devices(Session, now, <<tr>>, NoA).reqs, 1) :
           /\ RecordOp("get_all_devices", NoArgs, get_all_devices(Session, now, <<tr>>, <<ar>>))
           /\ UNCHANGED <<now, file>>

GetThermostats ==
    /\ lastOp = "__init__"
    /\ \E tr \in OpsTokenDomain(get_thermostats(Session, now, NoT, NoA).reqs, 1) :
       \E ar \in OpsApiDomain(get_thermostats(Session, now, <<tr>>, NoA).reqs, 1) :
           /\ RecordOp("get_thermostats", NoArgs, get_thermostats(Session, now, <<tr>>, <<ar>>))
           /\ UNCHANGED <<now, file>>

GetThermostatStatus ==
    /\ lastOp = "__init__"
    /\ \E d \in DeviceIds, l \in LocationIds \ {None} :
       \E tr \in OpsTokenDomain(get_thermostat_status(Session, now, d, l, NoT, NoA).reqs, 1) :
       \E ar \in OpsApiDomain(get_thermostat_status(Session, now, d, l, <<tr>>, NoA).reqs, 1) :
           /\ RecordOp("get_thermostat_status",
                       Args("-", NoEndpoint, d, "-", NoValue, NoValue, l, "-"),
                       get_thermostat_status(Session, now, d, l, <<tr>>, <<ar>>))
           /\ UNCHANGED <<now, file>>

SetThermostatSettings ==
    /\ lastOp = "__init__"
    /\ \E d \in DeviceIds, l \in LocationIds \ {None}, v \in {[mode |-> "Heat"]} :
       LET run(tr, ar) == set_thermostat_settings(Session, now, d, l, v, tr, ar, 1) IN
       \E tr \in OpsTokenDomain(run(NoT[1], NoA[1]).reqs, 1) :
       \E ar \in OpsApiDomain(run(tr, NoA[1]).reqs, 1) :
           /\ RecordOp("set_thermostat_settings",
                       Args("-", NoEndpoint, d, "-", NoValue, NoValue, l, "-"),
                       Op(run(tr, ar).s, run(tr, ar).res, <<run(tr, ar).res>>,
                          run(tr, ar).reqs))
           /\ UNCHANGED <<now, file>>

SetTemperature ==
    /\ lastOp = "__init__"
    /\ \E d \in DeviceIds, m \in Modes, h \in HeatSetpoints, c \in CoolSetpoints,
          l \in LocationIds :
       LET run(trs, ars) == set_temperature(Session, now, d, m, h, c, l, trs, ars) IN
       \E t1 \in OpsTokenDomain(run(NoT, NoA).reqs, 1) :
       \E a1 \in OpsApiDomain(run(<<t1, NoT[2], NoT[3]>>, NoA).reqs, 1) :
       \E t2 \in OpsTokenDomain(run(<<t1, NoT[2], NoT[3]>>, <<a1, NoA[2], NoA[3]>>).reqs, 2) :
       \E a2 \in OpsApiDomain(run(<<t1, t2, NoT[3]>>, <<a1, NoA[2], NoA[3]>>).reqs, 2) :
       \E t3 \in OpsTokenDomain(run(<<t1, t2, NoT[3]>>, <<a1, a2, NoA[3]>>).reqs, 3) :
       \E a3 \in OpsApiDomain(run(<<t1, t2, t3>>, <<a1, a2, NoA[3]>>).reqs, 3) :
           /\ RecordOp("set_temperature", Args("-", NoEndpoint, d, m, h, c, l, "-"),
                       run(<<t1, t2, t3>>, <<a1, a2, a3>>))
           /\ UNCHANGED <<now, file>>

SetFanMode ==
    /\ lastOp = "__init__"
    /\ \E d \in DeviceIds, f \in FanModes, l \in LocationIds :
       LET run(trs, ars) == set_fan_mode(Session, now, d, f, l, trs, ars) IN
       \E t1 \in OpsTokenDomain(run(NoT, NoA).reqs, 1) :
       \E a1 \in OpsApiDomain(run(<<t1, NoT[2]>>, NoA).reqs, 1) :
       \E t2 \in OpsTokenDomain(run(<<t1, NoT[2]>>, <<a1, NoA[2]>>).reqs, 2) :
       \E a2 \in OpsApiDomain(run(<<t1, t2>>, <<a1, NoA[2]>>).reqs, 2) :
           /\ RecordOp("set_fan_mode", Args("-", NoEndpoint, d, "-", NoValue, NoValue, l, f),
                       run(<<t1, t2>>, <<a1, a2>>))
           /\ UNCHANGED <<now, file>>

NextOps ==
    \/ GetLocations
    \/ GetAllDevices
    \/ GetThermostats
    \/ GetThermostatStatus
    \/ SetThermostatSettings
    \/ SetTemperature
    \/ SetFanMode

SpecOps == InitOps /\ [][NextOps]_vars

\* the token record and a token file that only save_tokens writes
NextPersist ==
    \/ Tick
    \/ ExchangeCode
    \/ SaveTokens
    \/ LoadTokens

SpecPersist == Init /\ [][NextPersist]_vars

-----------------------------------------------------------------------------
(* Two callers of _make_api_request on one controller.  Each caller runs   *)
(* lines 168, 146-152 and 103-134 statement by statement; the other may    *)
(* run between any two of its steps.                                       *)

op_vars == <<lastOp, lastArgs, lastResult, lastEnsure, lastCalls, lastReqs, lastDevice>>

\* the pairs the token endpoint grants to a refresh, each at most once: a
\* grant rotates the pair, so the pair granted last is the valid one
ConcGrants == {<<"a2", "r2">>, <<"a3", "r3">>, <<"a3", Absent>>}
ConcTokenResponses ==
    {TokenFailure} \cup
    {[ok |-> TRUE, access_token |-> p[1], refresh_token |-> p[2],
      expires_in |-> NoExpiresIn] : p \in ConcGrants}

\* lines 124-132 storing the refresh token of the response as line 85 does
StoreTokens_Overwrites(s, t, resp) ==
    [access_token |-> Get(resp.access_token),
     refresh_token |-> Get(resp.refresh_token),
     token_expires |-> <<t + ExpiresIn(resp)>>]

\* lines 124-132: the assignments of a granted refresh
StoreTokens(s, t, resp) ==
    [access_token |-> Get(resp.access_token),
     refresh_token |-> IF resp.refresh_token # Absent
                       THEN resp.refresh_token ELSE s.refresh_token,
     token_expires |-> <<t + ExpiresIn(resp)>>]

InitConc ==
    /\ \E s \in OpsSessions :
           /\ access_token = s.access_token
           /\ refresh_token = s.refresh_token
           /\ token_expires = s.token_expires
    /\ now = 0
    /\ file = MissingFile
    /\ lastOp = "__init__"
    /\ lastArgs = NoArgs
    /\ lastResult = NoResult
    /\ lastEnsure = "-"
    /\ lastCalls = <<>>
    /\ lastReqs = <<>>
    /\ lastDevice = NoValue
    /\ NoCallers

\* lines 168 and 146-150: the caller enters and checks the token
CheckToken(c) ==
    /\ pc[c] = "idle"
    /\ pc' = [pc EXCEPT ![c] =
                 IF access_token = None THEN "failed"
                 ELSE IF AboutToExpire(Session, now) THEN "refresh"
                 ELSE "dispatch"]
    /\ UNCHANGED <<session_vars, now, file, op_vars, refresh_data, token_data, granted>>

\* lines 103-117: the caller reads the refresh token into its request
ReadRefreshToken(c) ==
    /\ pc[c] = "refresh"
    /\ pc' = [pc EXCEPT ![c] = IF refresh_token = None THEN "failed" ELSE "post"]
    /\ refresh_data' = [refresh_data EXCEPT ![c] = refresh_token]
    /\ UNCHANGED <<session_vars, now, file, op_vars, token_data, granted>>

\* lines 120-123: the token endpoint answers the caller's POST
PostRefresh(c) ==
    /\ pc[c] = "post"
    /\ \E resp \in ConcTokenResponses :
           /\ resp.ok => \A i \in 1..Len(granted) :
                             token_data[granted[i]].access_token # resp.access_token
           /\ token_data' = [token_data EXCEPT ![c] = resp]
           /\ granted' = IF resp.ok THEN Append(granted, c) ELSE granted
           /\ pc' = [pc EXCEPT ![c] = IF resp.ok THEN "write" ELSE "failed"]
    /\ UNCHANGED <<session_vars, now, file, op_vars, refresh_data>>

\* lines 124-134 and 152: the caller stores what its response holds
WriteTokens(c) ==
    /\ pc[c] = "write"
    /\ SetSession(StoreTokens(Session, now, token_data[c]))
    /\ pc' = [pc EXCEPT ![c] = "dispatch"]
    /\ UNCHANGED <<now, file, op_vars, refresh_data, token_data, granted>>

\* lines 171-189: the caller sends its request with the token held now
Dispatch(c) ==
    /\ pc[c] = "dispatch"
    /\ pc' = [pc EXCEPT ![c] = "done"]
    /\ UNCHANGED <<session_vars, now, file, op_vars, refresh_data, token_data, granted>>

NextConc ==
    \E c \in Callers :
        \/ CheckToken(c)
        \/ ReadRefreshToken(c)
        \/ PostRefresh(c)
        \/ WriteTokens(c)
        \/ Dispatch(c)

SpecConc == InitConc /\ [][NextConc]_vars

-----------------------------------------------------------------------------
(* Properties *)

\* the held token record is within the expiry margin now
InMargin == IsSet(token_expires) /\ now >= At(token_expires) - MarginSeconds

\* among the requests is a refresh that the token endpoint granted
RefreshSucceeded(reqs) ==
    \E i \in 1..Len(reqs) :
        reqs[i].kind = "token" /\ reqs[i].grant = "refresh_token" /\ reqs[i].ok

\* C1: whenever an operation dispatches a request to the device/location
\* API, the session holds an access token and now < expires_at - 5 minutes
\* at the moment of dispatch.
C1_FreshAtDispatch ==
    \A i \in 1..Len(lastReqs) :
        lastReqs[i].kind = "api" =>
            /\ lastReqs[i].bearer # None
            /\ IsSet(lastReqs[i].expires)
            /\ lastReqs[i].at < At(lastReqs[i].expires) - MarginSeconds

\* C2 as stated: _ensure_valid_token posts exactly one refresh to the token
\* endpoint when the access token is set and within the margin, and none on
\* a fresh record (one outside the margin) that exchange_code_for_token has
\* just issued.
C2_OneRefreshInMarginNoneWhenFresh ==
    [][lastOp' = "_ensure_valid_token" =>
          /\ (access_token # None /\ InMargin) => Len(TokenReqs(lastReqs')) = 1
          /\ (lastOp = "exchange_code_for_token" /\ lastResult.kind = "success"
              /\ ~InMargin)
                 => Len(TokenReqs(lastReqs')) = 0]_vars

\* C2 amended: _ensure_valid_token posts exactly one refresh, carrying the
\* held refresh token, when the access token is set, within the margin, and
\* a refresh token is held; it posts none on a fresh record (one outside the
\* margin) that exchange_code_for_token has just issued.
C2_OneRefreshWhenHeldNoneWhenFresh ==
    [][lastOp' = "_ensure_valid_token" =>
          /\ (access_token # None /\ InMargin /\ refresh_token # None)
                 => /\ Len(TokenReqs(lastReqs')) = 1
                    /\ Len(lastReqs') = 1
                    /\ lastReqs'[1].sent = refresh_token
          /\ (lastOp = "exchange_code_for_token" /\ lastResult.kind = "success"
              /\ ~InMargin)
                 => lastReqs' = <<>>]_vars

\* C2 witness: _ensure_valid_token ran on an expiring record and posted one
\* refresh, which succeeded.
C2_Witness ==
    /\ lastOp = "_ensure_valid_token"
    /\ Len(lastReqs) = 1
    /\ lastReqs[1].kind = "token"
    /\ lastEnsure = "True"

\* C3: a record with an access token and no expiry is not accepted as valid
\* without a refresh: _ensure_valid_token does not return True on it and
\* _make_api_request dispatches nothing with it unless a refresh succeeded
\* first.
C3_UnsetExpiryNeedsRefresh ==
    [][(access_token # None /\ token_expires = NoTime) =>
          /\ (lastOp' = "_ensure_valid_token" /\ lastEnsure' = "True")
                 => RefreshSucceeded(lastReqs')
          /\ (lastOp' = "_make_api_request" /\ ApiReqs(lastReqs') # <<>>)
                 => RefreshSucceeded(lastReqs')]_vars

\* C4: when load_tokens returns False, access_token, refresh_token and
\* token_expires are what they were before the call.
C4_FailedLoadLeavesSession ==
    [][(lastOp' = "load_tokens" /\ lastResult'.kind = "False") =>
          /\ access_token' = access_token
          /\ refresh_token' = refresh_token
          /\ token_expires' = token_expires]_vars

\* C5: if access_token is present then token_expires is present.
C5_ExpiresSetWithAccessToken ==
    access_token # None => IsSet(token_expires)

\* C6: when _ensure_valid_token fails in _make_api_request (no access token
\* held, an expiring token without a refresh token, or a refresh that the
\* token endpoint refuses), the call returns the error at once and no
\* request goes to the device/location API.
C6_EnsureFailsNoDispatch ==
    [][(/\ lastOp' = "_make_api_request"
        /\ \/ access_token = None
           \/ (InMargin /\ refresh_token = None)
           \/ (\E i \in 1..Len(lastReqs') :
                   lastReqs'[i].kind = "token" /\ ~lastReqs'[i].ok)
           \/ lastEnsure' = "False")
       => /\ lastResult' = Error("No valid access token available")
          /\ lastEnsure' = "False"
          /\ ApiReqs(lastReqs') = <<>>
          /\ Len(lastReqs') <= 1]_vars

\* C6 witness: a call whose refresh was refused, and that stopped there.
C6_Witness ==
    /\ lastOp = "_make_api_request"
    /\ lastEnsure = "False"
    /\ Len(lastReqs) = 1
    /\ lastReqs[1].kind = "token"
    /\ ~lastReqs[1].ok
    /\ lastResult.kind = "error"

\* C7: one _make_api_request issues at most one refresh and at most one API
\* request; a refused refresh or a failed API request is the last request
\* of the call, and the call returns an error.
C7_NoRetries ==
    lastOp = "_make_api_request" =>
        /\ Len(TokenReqs(lastReqs)) <= 1
        /\ Len(ApiReqs(lastReqs)) <= 1
        /\ \A i \in 1..Len(lastReqs) :
               ~lastReqs[i].ok => i = Len(lastReqs) /\ lastResult.kind = "error"

\* C7 witness: a call that refreshed, was answered 401 by the API and
\* returned the error.
C7_Witness ==
    /\ lastOp = "_make_api_request"
    /\ Len(lastReqs) = 2
    /\ lastReqs[1].kind = "token"
    /\ lastReqs[2].status = "http_json"
    /\ lastResult.kind = "error"

RecordOf(f) ==
    [access_token |-> Get(f.access_token), refresh_token |-> Get(f.refresh_token),
     token_expires |-> IF IsIso(f.expires) THEN <<f.expires.t>> ELSE NoTime]

\* C9: load_tokens on a file that save_tokens wrote for a record returns
\* True and leaves exactly that record in the session: its access_token, its
\* refresh_token and its token_expires, unset when the record's was unset,
\* whatever the session held before.
C9_RoundTrip ==
    [][(lastOp' = "load_tokens" /\ file = TokenData(RecordOf(file)))
       => /\ lastResult'.kind = "True"
          /\ access_token' = RecordOf(file).access_token
          /\ refresh_token' = RecordOf(file).refresh_token
          /\ token_expires' = RecordOf(file).token_expires]_vars

\* C10: when a locations fetch made by set_temperature returns an error,
\* set_temperature returns that error.
C10_UpstreamErrorUnchanged ==
    (/\ lastOp = "set_temperature"
     /\ lastCalls # <<>>
     /\ Len(lastCalls) < (IF lastArgs.location_id = None THEN 3 ELSE 2)
     /\ lastCalls[Len(lastCalls)].kind = "error")
    => lastResult = lastCalls[Len(lastCalls)]

\* the write requests of the last operation, and what the device-lookup
\* fetch of set_temperature returned before its write
WriteReqs == SelectSeq(lastReqs, LAMBDA e : e.kind = "api" /\ e.method = "POST")
LookedUp == lastCalls[Len(lastCalls) - 1].data.items
Fetched ==
    Head(SelectSeq(Flatten(LookedUp),
                   LAMBDA d : GetKey(d, "deviceID", None) = lastArgs.device_id))

\* the id of the first of the locations that embeds the device
RECURSIVE LocationOf(_, _)
LocationOf(locations, device_id) ==
    IF locations = <<>> THEN None
    ELSE LET devices == GetKey(Head(locations), "devices", <<>>) IN
         IF \E i \in 1..Len(devices) : GetKey(devices[i], "deviceID", None) = device_id
         THEN GetKey(Head(locations), "locationID", None)
         ELSE LocationOf(Tail(locations), device_id)

\* C11: set_temperature called without location_id, on an account whose
\* locations both of its fetches return alike, sends its write to
\* /devices/thermostats/{device_id}?locationId={id of the location that
\* embeds the device}, with the device's changeableValues, the mode, the
\* supplied setpoints and thermostatSetpointStatus = "PermanentHold" as body.
C11_WriteTargetsContainingLocation ==
    (/\ lastOp = "set_temperature"
     /\ lastArgs.location_id = None
     /\ WriteReqs # <<>>
     /\ lastCalls[1] = lastCalls[2])
    => /\ WriteReqs[1].endpoint =
              Endpoint("/devices/thermostats/" \o lastArgs.device_id,
                       "locationId=" \o LocationOf(LookedUp, lastArgs.device_id))
       /\ WriteReqs[1].body.mode = lastArgs.mode
       /\ WriteReqs[1].body.thermostatSetpointStatus = "PermanentHold"

\* C12: the body set_temperature submits is the fetched device's
\* changeableValues with mode overwritten, heatSetpoint and coolSetpoint
\* overwritten only when supplied, and thermostatSetpointStatus set to
\* "PermanentHold"; every other key and every omitted setpoint keeps its
\* value, and the fetched device itself is as it was fetched.
C12_ReadModifyWrite ==
    (lastOp = "set_temperature" /\ WriteReqs # <<>>)
    => LET old == GetKey(Fetched, "changeableValues", <<>>)
           body == WriteReqs[1].body
           supplied ==
               (IF lastArgs.heat_setpoint # NoValue THEN {"heatSetpoint"} ELSE {})
               \cup (IF lastArgs.cool_setpoint # NoValue THEN {"coolSetpoint"} ELSE {})
           written == {"mode", "thermostatSetpointStatus"} \cup supplied IN
       /\ Len(WriteReqs) = 1
       /\ DOMAIN body = (DOMAIN old) \cup written
       /\ body.mode = lastArgs.mode
       /\ body.thermostatSetpointStatus = "PermanentHold"
       /\ lastArgs.heat_setpoint # NoValue => body.heatSetpoint = lastArgs.heat_setpoint[1]
       /\ lastArgs.cool_setpoint # NoValue => body.coolSetpoint = lastArgs.cool_setpoint[1]
       /\ \A key \in (DOMAIN old) \ written : body[key] = old[key]
       /\ lastDevice = <<Fetched>>

\* C12 witness: a write for D2 with only the heat setpoint supplied, whose
\* body keeps the device's coolSetpoint of 78.
C12_Witness ==
    /\ lastOp = "set_temperature"
    /\ lastArgs.device_id = "D2"
    /\ lastArgs.heat_setpoint = <<68>>
    /\ lastArgs.cool_setpoint = NoValue
    /\ WriteReqs # <<>>
    /\ WriteReqs[1].body.coolSetpoint = 78
    /\ WriteReqs[1].body.heatSetpoint = 68
    /\ lastResult.kind = "success"

\* among the requests is one that the token endpoint refused
TokenRefused(reqs) ==
    \E i \in 1..Len(reqs) : reqs[i].kind = "token" /\ ~reqs[i].ok

Methods == {"GET", "POST", "PUT", "DELETE"}

\* C13: _ensure_valid_token proceeds without refreshing (returns True with
\* no refresh attempted) exactly when an access token is held and it is not
\* the case that now >= token_expires - 5 minutes.
C13_ValidityDecision ==
    [][lastOp' = "_ensure_valid_token" =>
          ((lastEnsure' = "True" /\ lastReqs' = <<>>)
           <=> (access_token # None /\ ~InMargin))]_vars

\* C13 witness: _ensure_valid_token decided against a record exactly at
\* now = token_expires - 5 minutes (it held no refresh token, so the record
\* is as it was).
C13_Witness ==
    /\ lastOp = "_ensure_valid_token"
    /\ access_token # None
    /\ IsSet(token_expires)
    /\ now = At(token_expires) - MarginSeconds
    /\ refresh_token = None
    /\ lastEnsure = "False"

\* C14: _make_api_request with a method other than GET, POST, PUT, DELETE
\* returns an error, sends no request to the API or to the token endpoint
\* and leaves the token record as it was, in every token state.
C14_UnsupportedMethodIsLocal ==
    [][(lastOp' = "_make_api_request" /\ Upper(lastArgs'.method) \notin Methods)
       => /\ lastResult'.kind = "error"
          /\ lastReqs' = <<>>
          /\ session_vars' = session_vars]_vars

\* C15 as stated: with no access token held, _ensure_valid_token (alone or
\* in _make_api_request) fails with no request sent, refresh token held or
\* not, and leaves the token record as it was; only
\* exchange_code_for_token or an explicit refresh_access_token gives the
\* session an access token again.
C15_NoTokenFailsOnlyExchangeOrRefresh ==
    [][access_token = None =>
          /\ lastOp' \in {"_ensure_valid_token", "_make_api_request"}
                 => /\ lastEnsure' = "False"
                    /\ lastReqs' = <<>>
                    /\ session_vars' = session_vars
          /\ access_token' # None
                 => lastOp' \in {"exchange_code_for_token",
                                 "refresh_access_token"}]_vars

\* C15 amended: with no access token held, _ensure_valid_token (alone or in
\* _make_api_request) fails with no request sent, refresh token held or
\* not, and leaves the token record as it was; only
\* exchange_code_for_token, an explicit refresh_access_token or load_tokens
\* of a record that holds an access token gives the session one again.
C15_NoTokenFailsOnlyExchangeRefreshOrLoad ==
    [][access_token = None =>
          /\ lastOp' \in {"_ensure_valid_token", "_make_api_request"}
                 => /\ lastEnsure' = "False"
                    /\ lastReqs' = <<>>
                    /\ session_vars' = session_vars
          /\ access_token' # None
                 => \/ lastOp' \in {"exchange_code_for_token",
                                     "refresh_access_token"}
                    \/ /\ lastOp' = "load_tokens"
                       /\ file.kind = "record"
                       /\ access_token' = Get(file.access_token)]_vars

\* C15 witness: _ensure_valid_token failed, with nothing sent, on a session
\* that holds a refresh token and no access token.
C15_Witness ==
    /\ lastOp = "_ensure_valid_token"
    /\ access_token = None
    /\ refresh_token # None
    /\ lastEnsure = "False"
    /\ lastReqs = <<>>

\* C16: refresh_access_token with no refresh token held returns an error,
\* sends nothing and leaves the token record as it was; so
\* _ensure_valid_token on an expiring token without a refresh token fails
\* with no request sent.
C16_NoRefreshTokenFailsLocally ==
    [][refresh_token = None =>
          /\ lastOp' = "refresh_access_token"
                 => /\ lastResult' = Error("No refresh token available")
                    /\ lastReqs' = <<>>
                    /\ session_vars' = session_vars
          /\ (lastOp' = "_ensure_valid_token" /\ access_token # None /\ InMargin)
                 => /\ lastEnsure' = "False"
                    /\ lastReqs' = <<>>
                    /\ session_vars' = session_vars]_vars

\* C16 witness: _ensure_valid_token failed, with nothing sent, on an
\* expiring token without a refresh token.
C16_Witness ==
    /\ lastOp = "_ensure_valid_token"
    /\ access_token # None
    /\ InMargin
    /\ refresh_token = None
    /\ lastEnsure = "False"
    /\ lastReqs = <<>>

\* C20: an operation whose token request is refused (transport fault or
\* non-2xx) returns an error and leaves access_token, refresh_token and
\* token_expires as they were; a session that was valid still dispatches,
\* and the next call on an expiring session sends the refresh again with
\* the same refresh token.
C20_FailedTokenCallLeavesSession ==
    [][/\ TokenRefused(lastReqs')
           => /\ session_vars' = session_vars
              /\ lastResult'.kind \in {"error", "False"}
       /\ (TokenRefused(lastReqs) /\ lastOp' = "_make_api_request"
            /\ access_token # None /\ ~InMargin
            /\ Upper(lastArgs'.method) \in Methods)
           => /\ Len(lastReqs') = 1
              /\ lastReqs'[1].kind = "api"
              /\ lastReqs'[1].bearer = access_token
       /\ \A i \in 1..Len(lastReqs) :
              (/\ lastReqs[i].kind = "token" /\ ~lastReqs[i].ok
               /\ lastReqs[i].grant = "refresh_token"
               /\ lastOp' = "_make_api_request"
               /\ access_token # None /\ InMargin)
              => /\ lastReqs' # <<>>
                 /\ lastReqs'[1].kind = "token"
                 /\ lastReqs'[1].grant = "refresh_token"
                 /\ lastReqs'[1].sent = lastReqs[i].sent]_vars

\* C20 witness: a call on an expiring session whose refresh was refused;
\* the session still holds its tokens, the refresh token being the one sent.
C20_Witness ==
    /\ lastOp = "_make_api_request"
    /\ Len(lastReqs) = 1
    /\ lastReqs[1].kind = "token"
    /\ ~lastReqs[1].ok
    /\ access_token # None
    /\ InMargin
    /\ refresh_token = lastReqs[1].sent

\* the thermostats among the devices of the locations, location by location
RECURSIVE ThermostatsOf(_)
ThermostatsOf(locations) ==
    IF locations = <<>> THEN <<>>
    ELSE SelectSeq(GetKey(Head(locations), "devices", <<>>),
                   LAMBDA d : \/ GetKey(d, "deviceType", None) = "Thermostat"
                              \/ GetKey(d, "deviceClass", None) = "Thermostat")
         \o ThermostatsOf(Tail(locations))

\* C17: get_thermostats returns a sequence, never an error and never a
\* raised fault: the empty one when its locations fetch failed, and when
\* the fetch succeeded exactly the devices whose deviceType or deviceClass
\* is "Thermostat", in location order and then device order.
C17_ThermostatsOrEmpty ==
    lastOp = "get_thermostats" =>
        /\ lastResult.kind = "list"
        /\ lastCalls[1].kind # "success" => lastResult.data.items = <<>>
        /\ lastCalls[1].kind = "success"
               => lastResult.data.items = ThermostatsOf(lastCalls[1].data.items)

\* what set_fan_mode is to send for a valid fan mode
FanBody(fan_mode) ==
    [mode |-> CASE Lower(fan_mode) = "auto" -> "Auto"
                [] Lower(fan_mode) = "on" -> "On"
                [] Lower(fan_mode) = "circulate" -> "Circulate"]
FanEndpoint(device_id, location_id) ==
    Endpoint("/devices/thermostats/" \o device_id \o "/fan", "locationId=" \o location_id)
ValidFanMode(fan_mode) == Lower(fan_mode) \in {"auto", "on", "circulate"}

\* C18 as stated: set_fan_mode with a fan mode other than auto, on,
\* circulate (in any case) returns an error, sends nothing and leaves the
\* token record as it was; with a valid fan mode it submits exactly one POST
\* to /devices/thermostats/{device_id}/fan?locationId={location_id} with
\* body {mode: the fan mode title-cased}.
C18_FanModeValidatedThenOnePost ==
    [][lastOp' = "set_fan_mode" =>
          IF ~ValidFanMode(lastArgs'.fan_mode)
          THEN /\ lastResult'.kind = "error"
               /\ lastReqs' = <<>>
               /\ session_vars' = session_vars
          ELSE /\ Len(WriteReqs') = 1
               /\ WriteReqs'[1].body = FanBody(lastArgs'.fan_mode)
               /\ \E l \in {"LA", "LB", "LC", None} :
                      WriteReqs'[1].endpoint = FanEndpoint(lastArgs'.device_id, l)]_vars

\* C18 amended: an invalid fan mode is answered as above; with a valid fan
\* mode set_fan_mode submits at most one POST, and every POST goes to
\* /devices/thermostats/{device_id}/fan?locationId={location_id}, the
\* location_id being the one given or else that of the first location
\* fetched, with body {mode: the fan mode title-cased}; it submits exactly
\* one unless the token check fails or no location is resolved, in which
\* case it returns an error (or raises on a locations body that is no
\* JSON) and submits none.
C18_FanModeValidatedThenAtMostOnePost ==
    [][lastOp' = "set_fan_mode" =>
          IF ~ValidFanMode(lastArgs'.fan_mode)
          THEN /\ lastResult'.kind = "error"
               /\ lastReqs' = <<>>
               /\ session_vars' = session_vars
          ELSE /\ Len(WriteReqs') <= 1
               /\ WriteReqs' # <<>> =>
                      /\ WriteReqs'[1].body = FanBody(lastArgs'.fan_mode)
                      /\ WriteReqs'[1].endpoint =
                             FanEndpoint(lastArgs'.device_id,
                                 IF lastArgs'.location_id # None
                                 THEN lastArgs'.location_id
                                 ELSE GetKey(lastCalls'[1].data.items[1],
                                             "locationID", None))
               /\ WriteReqs' = <<>> <=>
                      \/ lastResult' \in {Error("No valid access token available"),
                                          Error("Could not get location information")}
                      \/ lastResult'.kind = "raised"]_vars

\* C18 witness: set_fan_mode("CIRCULATE") without a location id fetched the
\* locations and posted {mode: "Circulate"}.
C18_Witness ==
    /\ lastOp = "set_fan_mode"
    /\ lastArgs.fan_mode = "CIRCULATE"
    /\ lastArgs.location_id = None
    /\ Len(lastReqs) >= 2
    /\ Len(WriteReqs) = 1
    /\ WriteReqs[1].body = [mode |-> "Circulate"]
    /\ lastResult.kind = "success"

\* C19: the check and the refresh are no critical section.  Each caller
\* that found the token expiring posts the refresh token it read, whatever
\* the other caller is doing, and the tokens held after a caller stores its
\* response are that response's (the refresh token held before when the
\* response supplies none), whether or not the server granted it last.
C19_LastWriteWins ==
    [][\A c \in Callers :
           /\ (pc[c] = "refresh" /\ pc'[c] = "post")
                  => refresh_data'[c] = refresh_token
           /\ (pc[c] = "write" /\ pc'[c] # "write")
                  => /\ access_token' = Get(token_data[c].access_token)
                     /\ refresh_token' = IF token_data[c].refresh_token # Absent
                                          THEN token_data[c].refresh_token
                                          ELSE refresh_token
                     /\ token_expires' = <<now + DefaultExpiresIn>>]_vars

\* C19 witness: both callers posted the same refresh token, the server
\* granted caller 1 and then caller 2, both stored their response, and the
\* tokens held are those granted to caller 1, which the later grant to
\* caller 2 has rotated out.
C19_Witness ==
    /\ pc[1] \in {"dispatch", "done"}
    /\ pc[2] \in {"dispatch", "done"}
    /\ refresh_data[1] # None
    /\ refresh_data[1] = refresh_data[2]
    /\ granted = <<1, 2>>
    /\ access_token = token_data[1].access_token
    /\ refresh_token = token_data[1].refresh_token
    /\ access_token # token_data[2].access_token

====
